---- MODULE Spec2Model ----
(***************************************************************************)
(* Model of the "remote" command multiplexer (github.com/ktoks/remote):    *)
(*   - the frame codec (protocol.Encoder.Encode, protocol.DecodeLoop),     *)
(*   - one daemon connection (handleConnection, execRemote) and its client *)
(*     (runSingle, runBatch),                                              *)
(*   - the daemon life cycle (Start, AcquireLock, serveLoop) and the       *)
(*     client's rendezvous (connectOrSpawn).                               *)
(* Bytes are integers 0..255; text is its ASCII codes.                     *)
(***************************************************************************)
EXTENDS Integers, Sequences, FiniteSets, TLC

\* ------------------------------------------------------------------ bounds
\* Number of tasks that call Encode concurrently in SpecCodec.
NEnc == 2

\* ------------------------------------------------------- program constants
TypeStdout == 1
TypeStderr == 2
TypeExit == 3
\* A frame kind the decoder does not know.
TypeUnknown == 4
HeaderLen == 5

\* ------------------------------------------------------------ byte helpers
IsPrefix(s, t) == Len(s) <= Len(t) /\ SubSeq(t, 1, Len(s)) = s

Drop(s, n) == SubSeq(s, n + 1, Len(s))

\* binary.BigEndian.PutUint32(b, uint32(n)): the low 32 bits of n, high byte
\* first (taking each byte modulo 256 is the truncation to 32 bits).
PutUint32(n) ==
  << (n \div 16777216) % 256, (n \div 65536) % 256, (n \div 256) % 256, n % 256 >>

\* binary.BigEndian.Uint32(b); the caller guarantees Len(b) >= 4
Uint32(b) == b[1] * 16777216 + b[2] * 65536 + b[3] * 256 + b[4]

\* The 5-byte header Encode builds: [Type:1][Len:4]
EncodeHeader(pType, data) == <<pType>> \o PutUint32(Len(data))

\* The bytes of one whole frame
FrameBytes(f) == EncodeHeader(f.kind, f.data) \o f.data

RECURSIVE Flat(_)
Flat(fs) == IF fs = <<>> THEN <<>> ELSE FrameBytes(Head(fs)) \o Flat(Tail(fs))

\* Greedy partition of a byte stream into whole frames and an incomplete rest.
RECURSIVE ParseWire(_)
ParseWire(w) ==
  IF Len(w) < HeaderLen THEN [frames |-> <<>>, rest |-> w]
  ELSE LET n == Uint32(SubSeq(w, 2, 5))
       IN IF Len(w) < HeaderLen + n THEN [frames |-> <<>>, rest |-> w]
          ELSE LET r == ParseWire(Drop(w, HeaderLen + n))
               IN [frames |-> << [kind |-> w[1], data |-> SubSeq(w, 6, 5 + n)] >> \o r.frames,
                   rest |-> r.rest]

VARIABLES
  \* --- Encoder (one per connection) and its writer
  mu,        \* Encoder.mu: the task holding the mutex, 0 when free
  wire,      \* the bytes that reached Encoder.writer, in order
  wbroken,   \* the writer has failed or was closed: later writes fail
  wfaulty,   \* the writer is a generic io.Writer whose Write may fail short
  encLog,    \* history: the frames passed to Encode, in mutex order
  encBy,     \* history: the task of each entry of encLog
  \* --- tasks calling Encode
  epc,       \* task -> position inside Encode
  earg,      \* task -> the frame passed to the Encode call in progress
  eret,      \* task -> result of the last Encode call ("nil", "err")
  todo,      \* task -> frames the task still has to encode (SpecCodec)
  \* --- DecodeLoop over the same byte stream
  rpos,      \* bytes the reader has consumed
  dpc,       \* position of DecodeLoop
  header,    \* the header last read
  calls,     \* history: callbacks invoked, in order
  dres,      \* how DecodeLoop ended
  onExitMode \* what the onExit callback does: "exit", "continue", "stop"

codecVars == << mu, wire, wbroken, wfaulty, encLog, encBy, epc, earg, eret, todo,
                rpos, dpc, header, calls, dres, onExitMode >>

VARIABLES
  \* --- the client of one connection (client.Run after connectOrSpawn)
  batchMode, \* the --batch flag
  stdin,     \* batch: the input lines not yet scanned; single: <<the joined argv>>
  cpc,       \* position of the sender (runSingle's write, runBatch's goroutine)
  cstatus,   \* the client process: "running", "killed", "exited"
  cexit,     \* the exit status of the client process once "exited", else -1
  c2d,       \* bytes written by the client and not yet read by the daemon
  c2dClosed, \* the client's write side is closed (CloseWrite, Close, exit)
  \* --- the daemon's handler of that connection
  allowList, \* cfg.AllowedCommands
  hpc,       \* position of handleConnection: "read", "wait", "closed"
  ntasks,    \* commands accepted so far (tasks spawned)
  tpc,       \* task -> position of execRemote
  tcmd,      \* task -> its command line
  tres,      \* task -> history: what happened to the command
  nsess      \* task -> history: client.NewSession calls made for it

connVars == << batchMode, stdin, cpc, cstatus, cexit, c2d, c2dClosed,
               allowList, hpc, ntasks, tpc, tcmd, tres, nsess >>

\* The daemon lifecycle: the clients' connectOrSpawn, the daemons' Start and
\* serveLoop, the lock file and the socket file of one identity.
VARIABLES
  cos,          \* per client: its position in connectOrSpawn
  attempts,     \* per client: the poll-connect attempts made
  connTo,       \* per client: the daemon its connection reached (0: none)
  connSt,       \* per client: "none", "pending", "handling", "returned", "closed"
  procSt,       \* per daemon: its position in Start ("none": not spawned)
  lockFd,       \* per daemon: the lock file (inode) it has open (0: none)
  locked,       \* per daemon: past a successful AcquireLock, not yet released
  lockPath,     \* the file now at the lock path (0: absent)
  lockContent,  \* the PID written in that file (0: empty)
  nInodes,      \* lock files created so far
  sockPath,     \* the daemon whose socket file is at the socket path (0: absent)
  activeConns   \* per daemon: serveLoop's counter

lifeVars == << cos, attempts, connTo, connSt, procSt, lockFd, locked, lockPath,
               lockContent, nInodes, sockPath, activeConns >>

\* The semaphore of one connection's handler, with its tasks counted by the
\* point each has reached instead of told apart.
VARIABLES
  sem,          \* len(sem): the slots of the channel that are taken
  wg,           \* the counter of the WaitGroup
  loop,         \* the handler: "read", "acquire", "wait", "closed"
  nread,        \* the command lines ReadString has returned so far
  inExec,       \* tasks inside execRemote
  inRelease,    \* tasks past execRemote, before their deferred <-sem
  inDone        \* tasks past <-sem, before their deferred wg.Done()

semVars == << sem, wg, loop, nread, inExec, inRelease, inDone >>

vars == << codecVars, connVars, lifeVars, semVars >>

Tasks == DOMAIN epc

NoFrame == [kind |-> 0, data |-> <<>>]

\* ------------------------------------------------------------------ Encode
MuFree_NoMutex == TRUE

\* e.mu.Lock() can proceed
MuFree == mu = 0

\* How many bytes of p one writer.Write(p) call delivers.
WriteCounts(p) ==
  IF wbroken THEN {0}
  ELSE IF wfaulty THEN 0 .. Len(p) ELSE {Len(p)}

\* A task calls Encode with the next frame it has to send: e.mu.Lock(), then
\* e.writer.Write(header); on error unlock and return; with an empty payload
\* unlock and return nil. (Taking the mutex and the header write are one step:
\* nothing another task can observe lies between them.)
EncWriteHeader(t) ==
  /\ epc[t] \in {"idle", "ret"}
  /\ todo[t] # <<>>
  /\ MuFree
  /\ earg' = [earg EXCEPT ![t] = Head(todo[t])]
  /\ todo' = [todo EXCEPT ![t] = Tail(todo[t])]
  /\ encLog' = Append(encLog, Head(todo[t]))
  /\ encBy' = Append(encBy, t)
  /\ LET f == Head(todo[t])
         h == EncodeHeader(f.kind, f.data)
     IN \E n \in WriteCounts(h) :
          /\ wire' = wire \o SubSeq(h, 1, n)
          /\ IF n < Len(h)
             THEN /\ wbroken' = TRUE
                  /\ mu' = 0
                  /\ epc' = [epc EXCEPT ![t] = "ret"]
                  /\ eret' = [eret EXCEPT ![t] = "err"]
             ELSE IF Len(f.data) > 0
             THEN /\ mu' = t
                  /\ epc' = [epc EXCEPT ![t] = "payload"]
                  /\ UNCHANGED << wbroken, eret >>
             ELSE /\ mu' = 0
                  /\ epc' = [epc EXCEPT ![t] = "ret"]
                  /\ eret' = [eret EXCEPT ![t] = "nil"]
                  /\ UNCHANGED wbroken
  /\ UNCHANGED << wfaulty, rpos, dpc, header, calls, dres, onExitMode >>

\* e.writer.Write(data); unlock and return.
EncWritePayload(t) ==
  /\ epc[t] = "payload"
  /\ \E n \in WriteCounts(earg[t].data) :
       /\ wire' = wire \o SubSeq(earg[t].data, 1, n)
       /\ wbroken' = (wbroken \/ n < Len(earg[t].data))
       /\ eret' = [eret EXCEPT ![t] = IF n < Len(earg[t].data) THEN "err" ELSE "nil"]
  /\ mu' = 0
  /\ epc' = [epc EXCEPT ![t] = "ret"]
  /\ UNCHANGED << wfaulty, encLog, encBy, earg, todo, rpos, dpc, header, calls, dres, onExitMode >>

Encode(t) == EncWriteHeader(t) \/ EncWritePayload(t)

\* The writer's side of the stream is closed (its owner closes it or dies).
CloseWriter ==
  /\ ~wbroken
  /\ wbroken' = TRUE
  /\ UNCHANGED << mu, wire, wfaulty, encLog, encBy, epc, earg, eret, todo,
                  rpos, dpc, header, calls, dres, onExitMode >>

\* -------------------------------------------------------------- DecodeLoop
\* The reader is at end-of-file once the writing side is closed and drained.
Avail == Len(wire) - rpos

\* io.ReadFull(r, buf) with len(buf) = n > 0: blocks until n bytes or the end
\* of the stream; io.EOF only when no byte was read.
ReadFullEnabled(n) == Avail >= n \/ wbroken

ReadFull_ShortIsEOF(n) ==
  IF Avail >= n THEN [n |-> n, err |-> "nil"]
  ELSE [n |-> Avail, err |-> "EOF"]

ReadFull(n) ==
  IF Avail >= n THEN [n |-> n, err |-> "nil"]
  ELSE IF Avail = 0 THEN [n |-> 0, err |-> "EOF"]
  ELSE [n |-> Avail, err |-> "ErrUnexpectedEOF"]

\* One callback invocation, as recorded in the history.
Call(kind, data, code) == [kind |-> kind, data |-> data, code |-> code]

Dispatch_StdoutOnly(pType, payload) ==
  IF pType = TypeExit
  THEN [calls |-> calls, dres |-> "nil", dpc |-> "returned"]
  ELSE [calls |-> Append(calls, Call(TypeStdout, payload, 0)), dres |-> "running", dpc |-> "header"]

\* The switch of DecodeLoop on the frame kind, with the callbacks it invokes.
\* A nil payload (pLen = 0) is the empty sequence.
Dispatch(pType, payload) ==
  IF pType = TypeStdout \/ pType = TypeStderr
  THEN [calls |-> Append(calls, Call(pType, payload, 0)), dres |-> "running", dpc |-> "header"]
  ELSE IF pType = TypeExit
  THEN IF Len(payload) < 4
       THEN \* binary.BigEndian.Uint32 indexes b[3]: run-time panic
            [calls |-> calls, dres |-> "panic", dpc |-> "returned"]
       ELSE LET code == Uint32(payload)
                c == Append(calls, Call(TypeExit, payload, code))
            IN IF onExitMode = "exit"
               THEN [calls |-> c, dres |-> "osExit", dpc |-> "returned"]
               ELSE IF onExitMode = "stop"
               THEN [calls |-> c, dres |-> "nil", dpc |-> "returned"]
               ELSE [calls |-> c, dres |-> "running", dpc |-> "header"]
  ELSE [calls |-> calls, dres |-> "running", dpc |-> "header"]

\* io.ReadFull(r, header) and, for a zero length, the dispatch.
DecReadHeader ==
  /\ dpc = "header"
  /\ ReadFullEnabled(HeaderLen)
  /\ LET r == ReadFull(HeaderLen)
         h == SubSeq(wire, rpos + 1, rpos + HeaderLen)
     IN /\ rpos' = rpos + r.n
        /\ IF r.err = "EOF"
           THEN /\ dres' = "nil" /\ dpc' = "returned" /\ UNCHANGED << header, calls >>
           ELSE IF r.err # "nil"
           THEN /\ dres' = "errHeader" /\ dpc' = "returned" /\ UNCHANGED << header, calls >>
           ELSE /\ header' = h
                /\ IF Uint32(SubSeq(h, 2, 5)) > 0
                   THEN /\ dpc' = "payload" /\ UNCHANGED << calls, dres >>
                   ELSE LET d == Dispatch(h[1], <<>>)
                        IN /\ calls' = d.calls /\ dres' = d.dres /\ dpc' = d.dpc
  /\ UNCHANGED << mu, wire, wbroken, wfaulty, encLog, encBy, epc, earg, eret, todo, onExitMode >>

\* io.ReadFull(r, payload) for pLen > 0, then the dispatch.
DecReadPayload ==
  /\ dpc = "payload"
  /\ LET pLen == Uint32(SubSeq(header, 2, 5))
     IN /\ ReadFullEnabled(pLen)
        /\ LET r == ReadFull(pLen)
               payload == SubSeq(wire, rpos + 1, rpos + pLen)
           IN /\ rpos' = rpos + r.n
              /\ IF r.err # "nil"
                 THEN /\ dres' = "errPayload" /\ dpc' = "returned" /\ UNCHANGED calls
                 ELSE LET d == Dispatch(header[1], payload)
                      IN /\ calls' = d.calls /\ dres' = d.dres /\ dpc' = d.dpc
  /\ UNCHANGED << mu, wire, wbroken, wfaulty, encLog, encBy, epc, earg, eret, todo, header, onExitMode >>

DecodeLoop == DecReadHeader \/ DecReadPayload

\* --------------------------------------------------------------- SpecCodec
\* NEnc tasks share one Encoder over a generic writer, each encoding one
\* frame; DecodeLoop reads the same stream.
\* The frames the tasks of SpecCodec encode: output frames with an empty and a
\* non-empty payload, Exit frames with a 4-byte code and with a short payload,
\* and a frame of a kind the decoder does not know.
CodecFrames ==
  [kind : {TypeStdout, TypeStderr}, data : { <<>>, <<7>> }]
    \cup [kind : {TypeExit}, data : { <<>>, <<0, 0, 0, 2>> }]
    \cup [kind : {TypeUnknown}, data : { <<7>> }]

OnExitModes == {"exit", "continue", "stop"}

\* The connection of SpecConn is not part of SpecCodec.
ConnIdle ==
  /\ batchMode = FALSE
  /\ stdin = <<>>
  /\ cpc = "done"
  /\ cstatus = "running"
  /\ cexit = -1
  /\ c2d = <<>>
  /\ c2dClosed = FALSE
  /\ allowList = <<>>
  /\ hpc = "closed"
  /\ ntasks = 0
  /\ tpc = <<>>
  /\ tcmd = <<>>
  /\ tres = <<>>
  /\ nsess = <<>>

\* No client and no daemon process takes part in SpecCodec and SpecConn.
LifeIdle ==
  /\ cos = <<>>
  /\ attempts = <<>>
  /\ connTo = <<>>
  /\ connSt = <<>>
  /\ procSt = <<>>
  /\ lockFd = <<>>
  /\ locked = <<>>
  /\ lockPath = 0
  /\ lockContent = 0
  /\ nInodes = 0
  /\ sockPath = 0
  /\ activeConns = <<>>

SemIdle ==
  /\ sem = 0
  /\ wg = 0
  /\ loop = "none"
  /\ nread = 0
  /\ inExec = 0
  /\ inRelease = 0
  /\ inDone = 0

InitCodec ==
  /\ mu = 0
  /\ wire = <<>>
  /\ wbroken = FALSE
  /\ wfaulty = TRUE
  /\ encLog = <<>>
  /\ encBy = <<>>
  /\ epc = [t \in 1 .. NEnc |-> "idle"]
  /\ earg = [t \in 1 .. NEnc |-> NoFrame]
  /\ eret = [t \in 1 .. NEnc |-> "nil"]
  /\ todo \in [1 .. NEnc -> {<<f>> : f \in CodecFrames}]
  /\ rpos = 0
  /\ dpc = "header"
  /\ header = <<>>
  /\ calls = <<>>
  /\ dres = "running"
  /\ onExitMode \in OnExitModes
  /\ ConnIdle
  /\ LifeIdle
  /\ SemIdle

NextCodec ==
  \/ \E t \in Tasks : Encode(t) /\ UNCHANGED << connVars, lifeVars, semVars >>
  \/ CloseWriter /\ UNCHANGED << connVars, lifeVars, semVars >>
  \/ DecodeLoop /\ UNCHANGED << connVars, lifeVars, semVars >>

SpecCodec == InitCodec /\ [][NextCodec]_vars

\* ------------------------------------------------------------ text helpers
\* unicode.IsSpace on an ASCII byte: \t \n \v \f \r and the space
IsSpace(c) == c \in {9, 10, 11, 12, 13, 32}

RECURSIVE TrimLeft(_)
TrimLeft(s) == IF s # <<>> /\ IsSpace(Head(s)) THEN TrimLeft(Tail(s)) ELSE s

RECURSIVE TrimRight(_)
TrimRight(s) ==
  IF s # <<>> /\ IsSpace(s[Len(s)]) THEN TrimRight(SubSeq(s, 1, Len(s) - 1)) ELSE s

\* strings.TrimSpace
TrimSpace(s) == TrimRight(TrimLeft(s))

\* Length of the leading run of non-space bytes
RECURSIVE TokenLen(_)
TokenLen(s) == IF s = <<>> \/ IsSpace(Head(s)) THEN 0 ELSE 1 + TokenLen(Tail(s))

\* strings.Fields: the maximal runs of non-space bytes
RECURSIVE Fields(_)
Fields(s) ==
  LET t == TrimLeft(s)
  IN IF t = <<>> THEN <<>>
     ELSE << SubSeq(t, 1, TokenLen(t)) >> \o Fields(Drop(t, TokenLen(t)))

Newline == 10

HasLine(buf) == \E i \in 1 .. Len(buf) : buf[i] = Newline

\* Index of the first newline of a buffer that has one
FirstNewline(buf) ==
  CHOOSE i \in 1 .. Len(buf) :
    buf[i] = Newline /\ \A j \in 1 .. (i - 1) : buf[j] # Newline

\* "Command not allowed: "
MsgNotAllowed == << 67, 111, 109, 109, 97, 110, 100, 32, 110, 111, 116, 32, 97, 108, 108, 111, 119, 101, 100, 58, 32 >>

\* "SSH session error: "
MsgSessionError == << 83, 83, 72, 32, 115, 101, 115, 115, 105, 111, 110, 32, 101, 114, 114, 111, 114, 58, 32 >>

\* The text of the error client.NewSession returns: "x"
SessionErrText == << 120 >>

\* intToBytes
intToBytes(n) == PutUint32(n)

Frame(kind, data) == [kind |-> kind, data |-> data]

\* ----------------------------------------------------------------- config
IsCommandAllowed_Prefix(command) ==
  \E i \in 1 .. Len(allowList) : IsPrefix(allowList[i], command)

\* Config.IsCommandAllowed: byte equality with an entry of the list
IsCommandAllowed(command) ==
  \E i \in 1 .. Len(allowList) : command = allowList[i]

\* ------------------------------------------------------------- the client
ClientAlive == cstatus = "running"

\* The daemon's end of the connection is closed: a write of the client fails.
PeerClosed == hpc \in {"closed", "killed"}

\* runSingle: fmt.Fprintf(conn, "%s\n", cmd); on a write error runSingle
\* returns it and DecodeLoop is not entered.
SendSingle ==
  /\ ClientAlive
  /\ ~batchMode
  /\ cpc = "send"
  /\ stdin' = Tail(stdin)
  /\ cpc' = "done"
  /\ IF PeerClosed
       THEN /\ dpc' = "returned"
            /\ dres' = "errWrite"
            /\ UNCHANGED c2d
       ELSE /\ c2d' = c2d \o Head(stdin) \o << Newline >>
            /\ UNCHANGED << dpc, dres >>
  /\ UNCHANGED << batchMode, cstatus, cexit, c2dClosed, allowList, hpc, ntasks, tpc, tcmd, tres, nsess >>
  /\ UNCHANGED << mu, wire, wbroken, wfaulty, encLog, encBy, epc, earg, eret, todo,
                  rpos, header, calls, onExitMode >>

\* runBatch's sender: one scanner.Scan() round; an empty line is skipped.
SendBatchLine ==
  /\ ClientAlive
  /\ batchMode
  /\ cpc = "send"
  /\ stdin # <<>>
  /\ LET cmd == TrimSpace(Head(stdin))
     IN c2d' = IF cmd = <<>> \/ PeerClosed THEN c2d ELSE c2d \o cmd \o << Newline >>
  /\ stdin' = Tail(stdin)
  /\ UNCHANGED << batchMode, cpc, cstatus, cexit, c2dClosed, allowList, hpc, ntasks, tpc, tcmd, tres, nsess >>
  /\ UNCHANGED codecVars

\* Variant whose sender ends without half-closing the connection.
SendBatchEOF_NoCloseWrite ==
  /\ ClientAlive
  /\ batchMode
  /\ cpc = "send"
  /\ stdin = <<>>
  /\ cpc' = "done"
  /\ UNCHANGED << batchMode, stdin, cstatus, cexit, c2d, c2dClosed, allowList, hpc, ntasks, tpc, tcmd, tres, nsess >>
  /\ UNCHANGED codecVars

\* runBatch's sender at the end of the input: c.CloseWrite()
SendBatchEOF ==
  /\ ClientAlive
  /\ batchMode
  /\ cpc = "send"
  /\ stdin = <<>>
  /\ c2dClosed' = TRUE
  /\ cpc' = "done"
  /\ UNCHANGED << batchMode, stdin, cstatus, cexit, c2d, allowList, hpc, ntasks, tpc, tcmd, tres, nsess >>
  /\ UNCHANGED codecVars

\* Variant that ignores the code carried by the Exit frame.
ExitStatus_Zero ==
  IF dres = "osExit" THEN 0
  ELSE IF dres = "nil" THEN 0
  ELSE IF dres = "panic" THEN 2
  ELSE 1

\* The exit status of the client process once DecodeLoop has ended:
\* os.Exit(code) in runSingle's onExit, 0 when Run returns nil, 1 when main
\* reports Run's error, 2 for a run-time panic.
ExitStatus ==
  IF dres = "osExit" THEN calls[Len(calls)].code
  ELSE IF dres = "nil" THEN 0
  ELSE IF dres = "panic" THEN 2
  ELSE 1

\* The client's DecodeLoop runs after runSingle's write, or beside runBatch's sender.
ClientDecode ==
  /\ ClientAlive
  /\ batchMode \/ cpc = "done"
  /\ DecodeLoop
  /\ UNCHANGED connVars

\* The client process ends: conn.Close() and exit, or os.Exit.
ClientExit ==
  /\ ClientAlive
  /\ dpc = "returned"
  /\ cstatus' = "exited"
  /\ cexit' = ExitStatus
  /\ c2dClosed' = TRUE
  /\ wbroken' = TRUE
  /\ UNCHANGED << batchMode, stdin, cpc, c2d, allowList, hpc, ntasks, tpc, tcmd, tres, nsess >>
  /\ UNCHANGED << mu, wire, wfaulty, encLog, encBy, epc, earg, eret, todo,
                  rpos, dpc, header, calls, dres, onExitMode >>

\* The client process is killed by a signal: its socket is closed in both
\* directions and the state of the process (its input, its sender, its
\* DecodeLoop) is gone.
ClientKill ==
  /\ ClientAlive
  /\ cstatus' = "killed"
  /\ c2dClosed' = TRUE
  /\ wbroken' = TRUE
  /\ stdin' = <<>>
  /\ cpc' = "done"
  /\ rpos' = 0
  /\ dpc' = "returned"
  /\ header' = <<>>
  /\ calls' = <<>>
  /\ dres' = "killed"
  /\ UNCHANGED << batchMode, cexit, c2d, allowList, hpc, ntasks, tpc, tcmd, tres, nsess >>
  /\ UNCHANGED << mu, wire, wfaulty, encLog, encBy, epc, earg, eret, todo, onExitMode >>

\* ------------------------------------------------------------- execRemote
NoErr == [type |-> "nil", status |-> 0]

NoResult == [kind |-> "none", out |-> <<>>, err |-> NoErr]

\* Outcomes of session.CombinedOutput(cmd): the captured bytes ("h" or none)
\* and the error (nil, an *ssh.ExitError with its status, any other error)
RunOutcomes ==
  { [out |-> <<>>, err |-> [type |-> "nil", status |-> 0]],
    [out |-> <<104>>, err |-> [type |-> "nil", status |-> 0]],
    [out |-> <<104>>, err |-> [type |-> "ExitError", status |-> 2]],
    [out |-> <<>>, err |-> [type |-> "ExitError", status |-> 2]],
    [out |-> <<104>>, err |-> [type |-> "other", status |-> 0]],
    [out |-> <<>>, err |-> [type |-> "other", status |-> 0]] }

\* "Determine Exit Code"
ExitCodeOf(err) ==
  IF err.type = "nil" THEN 0
  ELSE IF err.type = "ExitError" THEN err.status
  ELSE 1

\* The frames execRemote encodes for a command that is not allowed
RejectFrames(token) ==
  << Frame(TypeStderr, MsgNotAllowed \o token \o << Newline >>),
     Frame(TypeExit, intToBytes(1)) >>

\* Variant that reports a failed NewSession with exit code 1.
SessionErrorFrames_Code1 ==
  << Frame(TypeStderr, MsgSessionError \o SessionErrText \o << Newline >>),
     Frame(TypeExit, intToBytes(1)) >>

\* The frames execRemote encodes when NewSession fails
SessionErrorFrames ==
  << Frame(TypeStderr, MsgSessionError \o SessionErrText \o << Newline >>),
     Frame(TypeExit, intToBytes(255)) >>

RunFrames_NoExit(out, err) ==
  IF Len(out) > 0 THEN << Frame(TypeStdout, out) >>
  ELSE << Frame(TypeExit, intToBytes(ExitCodeOf(err))) >>

RunFrames_ExitFirst(out, err) ==
  << Frame(TypeExit, intToBytes(ExitCodeOf(err))) >>
    \o (IF Len(out) > 0 THEN << Frame(TypeStdout, out) >> ELSE <<>>)

\* Variant that encodes a Stdout frame whatever the length of the output.
RunFrames_AlwaysStdout(out, err) ==
  << Frame(TypeStdout, out), Frame(TypeExit, intToBytes(ExitCodeOf(err))) >>

\* The frames execRemote encodes after the session ran
RunFrames(out, err) ==
  (IF Len(out) > 0 THEN << Frame(TypeStdout, out) >> ELSE <<>>)
    \o << Frame(TypeExit, intToBytes(ExitCodeOf(err))) >>

\* The start of execRemote(cmd): strings.Fields and the allow-list check.
\* Gives the task's position, the record of what happened and the frames it
\* has to encode.
ExecStart(cmd) ==
  LET parts == Fields(cmd)
  IN IF Len(parts) = 0
     THEN [tpc |-> "done", tres |-> NoResult, todo |-> <<>>]
     ELSE IF ~IsCommandAllowed(parts[1])
     THEN [tpc |-> "emit",
           tres |-> [kind |-> "rejected", out |-> <<>>, err |-> NoErr],
           todo |-> RejectFrames(parts[1])]
     ELSE [tpc |-> "session", tres |-> NoResult, todo |-> <<>>]

\* client.NewSession() and, when it succeeds, session.CombinedOutput(cmd) up
\* to the point where the exit code is determined. (Both calls wait for the
\* remote side and touch only the task's own state; they are one step.)
ExecSession(t) ==
  /\ tpc[t] = "session"
  /\ nsess' = [nsess EXCEPT ![t] = @ + 1]
  /\ \/ /\ todo' = [todo EXCEPT ![t] = SessionErrorFrames]
        /\ tres' = [tres EXCEPT ![t] = [kind |-> "nosession", out |-> <<>>, err |-> NoErr]]
     \/ \E r \in RunOutcomes :
          /\ todo' = [todo EXCEPT ![t] = RunFrames(r.out, r.err)]
          /\ tres' = [tres EXCEPT ![t] = [kind |-> "ran", out |-> r.out, err |-> r.err]]
  /\ tpc' = [tpc EXCEPT ![t] = "emit"]
  /\ UNCHANGED << batchMode, stdin, cpc, cstatus, cexit, c2d, c2dClosed, allowList, hpc, ntasks, tcmd >>
  /\ UNCHANGED << mu, wire, wbroken, wfaulty, encLog, encBy, epc, earg, eret,
                  rpos, dpc, header, calls, dres, onExitMode >>

\* The task's Encode calls, in program order
ExecEncode(t) ==
  /\ tpc[t] = "emit"
  /\ Encode(t)
  /\ UNCHANGED connVars

execRemote(t) == ExecSession(t) \/ ExecEncode(t)

\* ------------------------------------------------------- handleConnection
SemCap == 50

\* execRemote has returned for task t (wg.Done() and the release of its slot
\* of sem follow the return of its last Encode call at once).
Returned(t) ==
  \/ tpc[t] = "done"
  \/ tpc[t] = "emit" /\ todo[t] = <<>> /\ epc[t] \in {"idle", "ret"}

\* Commands holding a slot of sem (spawned, execRemote not yet returned)
InFlight == Cardinality({t \in DOMAIN tpc : tpc[t] # "none" /\ ~Returned(t)})

\* One round of the read loop with a line available: ReadString, TrimSpace,
\* skip an empty line, else take a slot of sem and spawn the command's task.
\* The task's first, local steps (strings.Fields and the allow-list check of
\* execRemote) are part of this step.
HandleLine ==
  /\ hpc = "read"
  /\ HasLine(c2d)
  /\ LET n == FirstNewline(c2d)
         cmdStr == TrimSpace(SubSeq(c2d, 1, n))
         t == ntasks + 1
     IN /\ c2d' = Drop(c2d, n)
        /\ IF cmdStr = <<>>
           THEN UNCHANGED << ntasks, tpc, tcmd, tres, todo >>
           ELSE /\ InFlight < SemCap
                /\ ntasks' = t
                /\ tcmd' = [tcmd EXCEPT ![t] = cmdStr]
                /\ tpc' = [tpc EXCEPT ![t] = ExecStart(cmdStr).tpc]
                /\ tres' = [tres EXCEPT ![t] = ExecStart(cmdStr).tres]
                /\ todo' = [todo EXCEPT ![t] = ExecStart(cmdStr).todo]
  /\ UNCHANGED << batchMode, stdin, cpc, cstatus, cexit, c2dClosed, allowList, hpc, nsess >>
  /\ UNCHANGED << mu, wire, wbroken, wfaulty, encLog, encBy, epc, earg, eret,
                  rpos, dpc, header, calls, dres, onExitMode >>

\* ReadString fails (end-of-file; an unterminated rest is dropped): break.
HandleEOF ==
  /\ hpc = "read"
  /\ ~HasLine(c2d)
  /\ c2dClosed
  /\ hpc' = "wait"
  /\ c2d' = <<>>
  /\ UNCHANGED << batchMode, stdin, cpc, cstatus, cexit, c2dClosed, allowList, ntasks, tpc, tcmd, tres, nsess >>
  /\ UNCHANGED codecVars

\* Variant that closes without wg.Wait().
HandleClose_NoWait ==
  /\ hpc = "wait"
  /\ hpc' = "closed"
  /\ wbroken' = TRUE
  /\ UNCHANGED << batchMode, stdin, cpc, cstatus, cexit, c2d, c2dClosed, allowList, ntasks, tpc, tcmd, tres, nsess >>
  /\ UNCHANGED << mu, wire, wfaulty, encLog, encBy, epc, earg, eret, todo,
                  rpos, dpc, header, calls, dres, onExitMode >>

\* wg.Wait() returns, then the deferred conn.Close().
HandleClose ==
  /\ hpc = "wait"
  /\ InFlight = 0
  /\ hpc' = "closed"
  /\ wbroken' = TRUE
  /\ UNCHANGED << batchMode, stdin, cpc, cstatus, cexit, c2d, c2dClosed, allowList, ntasks, tpc, tcmd, tres, nsess >>
  /\ UNCHANGED << mu, wire, wfaulty, encLog, encBy, epc, earg, eret, todo,
                  rpos, dpc, header, calls, dres, onExitMode >>

\* ---------------------------------------------------------------- SpecConn
\* One accepted connection: its client (single-shot or batch), the daemon's
\* handler and the handler's command tasks.
MaxLines == 2

\* "e", "rm", " e x", "ee", " "
CmdE == << 101 >>

CmdRm == << 114, 109 >>

CmdSpEX == << 32, 101, 32, 120 >>

CmdEe == << 101, 101 >>

CmdBlank == << 32 >>

SingleCmds == { CmdE, CmdRm, CmdSpEX, CmdEe, CmdBlank }

BatchLines == { CmdE, CmdRm, CmdBlank }

RECURSIVE SeqsUpTo(_, _)
SeqsUpTo(S, n) ==
  IF n = 0 THEN { <<>> }
  ELSE LET shorter == SeqsUpTo(S, n - 1)
       IN shorter \cup { Append(q, x) : q \in shorter, x \in S }

InitConn ==
  /\ mu = 0
  /\ wire = <<>>
  /\ wbroken = FALSE
  /\ wfaulty = FALSE
  /\ encLog = <<>>
  /\ encBy = <<>>
  /\ epc = [t \in 1 .. MaxLines |-> "idle"]
  /\ earg = [t \in 1 .. MaxLines |-> NoFrame]
  /\ eret = [t \in 1 .. MaxLines |-> "nil"]
  /\ todo = [t \in 1 .. MaxLines |-> <<>>]
  /\ rpos = 0
  /\ dpc = "header"
  /\ header = <<>>
  /\ calls = <<>>
  /\ dres = "running"
  /\ batchMode \in BOOLEAN
  /\ onExitMode = IF batchMode THEN "continue" ELSE "exit"
  /\ stdin \in IF batchMode THEN SeqsUpTo(BatchLines, MaxLines)
                            ELSE { << c >> : c \in SingleCmds }
  /\ cpc = "send"
  /\ cstatus = "running"
  /\ cexit = -1
  /\ c2d = <<>>
  /\ c2dClosed = FALSE
  /\ allowList = << CmdE >>
  /\ hpc = "read"
  /\ ntasks = 0
  /\ tpc = [t \in 1 .. MaxLines |-> "none"]
  /\ tcmd = [t \in 1 .. MaxLines |-> <<>>]
  /\ tres = [t \in 1 .. MaxLines |-> NoResult]
  /\ nsess = [t \in 1 .. MaxLines |-> 0]
  /\ LifeIdle
  /\ SemIdle

NextConn ==
  \/ SendSingle /\ UNCHANGED << lifeVars, semVars >>
  \/ SendBatchLine /\ UNCHANGED << lifeVars, semVars >>
  \/ SendBatchEOF /\ UNCHANGED << lifeVars, semVars >>
  \/ ClientDecode /\ UNCHANGED << lifeVars, semVars >>
  \/ ClientExit /\ UNCHANGED << lifeVars, semVars >>
  \/ ClientKill /\ UNCHANGED << lifeVars, semVars >>
  \/ HandleLine /\ UNCHANGED << lifeVars, semVars >>
  \/ HandleEOF /\ UNCHANGED << lifeVars, semVars >>
  \/ HandleClose /\ UNCHANGED << lifeVars, semVars >>
  \/ \E t \in Tasks : execRemote(t) /\ UNCHANGED << lifeVars, semVars >>

SpecConn == InitConn /\ [][NextConn]_vars

\* The daemon's tasks are scheduled fairly and a remote session, once asked
\* for, completes; nothing is assumed of the client.
FairConn ==
  /\ SpecConn
  /\ \A t \in 1 .. MaxLines :
        /\ WF_vars(ExecSession(t) /\ UNCHANGED << lifeVars, semVars >>)
        /\ WF_vars(ExecEncode(t) /\ UNCHANGED << lifeVars, semVars >>)

\* -------------------------------------------------------------- FairSingle
\* A single-shot connection (remote <args>): runSingle's write and its
\* DecodeLoop, the handler and its tasks, all scheduled fairly, remote
\* sessions completing. The client process may be killed; nothing makes that
\* happen.
InitSingle == InitConn /\ ~ batchMode

NextSingle ==
  \/ SendSingle /\ UNCHANGED << lifeVars, semVars >>
  \/ ClientDecode /\ UNCHANGED << lifeVars, semVars >>
  \/ ClientExit /\ UNCHANGED << lifeVars, semVars >>
  \/ ClientKill /\ UNCHANGED << lifeVars, semVars >>
  \/ HandleLine /\ UNCHANGED << lifeVars, semVars >>
  \/ HandleEOF /\ UNCHANGED << lifeVars, semVars >>
  \/ HandleClose /\ UNCHANGED << lifeVars, semVars >>
  \/ \E t \in Tasks : execRemote(t) /\ UNCHANGED << lifeVars, semVars >>

FairSingle ==
  /\ InitSingle
  /\ [][NextSingle]_vars
  /\ WF_vars(SendSingle /\ UNCHANGED << lifeVars, semVars >>)
  /\ WF_vars(ClientDecode /\ UNCHANGED << lifeVars, semVars >>)
  /\ WF_vars(ClientExit /\ UNCHANGED << lifeVars, semVars >>)
  /\ WF_vars(HandleLine /\ UNCHANGED << lifeVars, semVars >>)
  /\ WF_vars(HandleEOF /\ UNCHANGED << lifeVars, semVars >>)
  /\ WF_vars(HandleClose /\ UNCHANGED << lifeVars, semVars >>)
  /\ \A t \in 1 .. MaxLines :
        /\ WF_vars(ExecSession(t) /\ UNCHANGED << lifeVars, semVars >>)
        /\ WF_vars(ExecEncode(t) /\ UNCHANGED << lifeVars, semVars >>)

\* ---------------------------------------------------------------- SpecKill
\* The daemon process is killed while it serves the connection (process.Kill()
\* in the zombie sweep of another client's connectOrSpawn, or any other
\* signal): its handler and its tasks are gone and its end of the socket is
\* closed. The step is taken when the handler has read all the client sent,
\* so that the client's next read past the bytes on the wire meets a plain
\* end-of-file.
DaemonKill ==
  /\ hpc \in {"read", "wait"}
  /\ c2d = <<>>
  /\ hpc' = "killed"
  /\ tpc' = [t \in DOMAIN tpc |-> IF tpc[t] = "none" THEN "none" ELSE "killed"]
  /\ todo' = [t \in DOMAIN todo |-> <<>>]
  /\ epc' = [t \in DOMAIN epc |-> "idle"]
  /\ mu' = 0
  /\ wbroken' = TRUE
  /\ UNCHANGED << batchMode, stdin, cpc, cstatus, cexit, c2d, c2dClosed, allowList, ntasks, tcmd, tres, nsess >>
  /\ UNCHANGED << wire, wfaulty, encLog, encBy, earg, eret, rpos, dpc, header, calls, dres, onExitMode >>

NextKill ==
  \/ NextConn
  \/ DaemonKill /\ UNCHANGED << lifeVars, semVars >>

SpecKill == InitConn /\ [][NextKill]_vars

\* --------------------------------------------------------------- FairBatch
\* A batch-mode connection (remote -b): runBatch's sender and its DecodeLoop,
\* the handler and its tasks, all scheduled fairly. The client process may
\* still be killed at any time; nothing makes that happen.
InitBatch == InitConn /\ batchMode

NextBatch ==
  \/ SendBatchLine /\ UNCHANGED << lifeVars, semVars >>
  \/ SendBatchEOF /\ UNCHANGED << lifeVars, semVars >>
  \/ ClientDecode /\ UNCHANGED << lifeVars, semVars >>
  \/ ClientExit /\ UNCHANGED << lifeVars, semVars >>
  \/ ClientKill /\ UNCHANGED << lifeVars, semVars >>
  \/ HandleLine /\ UNCHANGED << lifeVars, semVars >>
  \/ HandleEOF /\ UNCHANGED << lifeVars, semVars >>
  \/ HandleClose /\ UNCHANGED << lifeVars, semVars >>
  \/ \E t \in Tasks : execRemote(t) /\ UNCHANGED << lifeVars, semVars >>

FairBatch ==
  /\ InitBatch
  /\ [][NextBatch]_vars
  /\ WF_vars(SendBatchLine /\ UNCHANGED << lifeVars, semVars >>)
  /\ WF_vars(SendBatchEOF /\ UNCHANGED << lifeVars, semVars >>)
  /\ WF_vars(ClientDecode /\ UNCHANGED << lifeVars, semVars >>)
  /\ WF_vars(ClientExit /\ UNCHANGED << lifeVars, semVars >>)
  /\ WF_vars(HandleLine /\ UNCHANGED << lifeVars, semVars >>)
  /\ WF_vars(HandleEOF /\ UNCHANGED << lifeVars, semVars >>)
  /\ WF_vars(HandleClose /\ UNCHANGED << lifeVars, semVars >>)
  /\ \A t \in 1 .. MaxLines :
        /\ WF_vars(ExecSession(t) /\ UNCHANGED << lifeVars, semVars >>)
        /\ WF_vars(ExecEncode(t) /\ UNCHANGED << lifeVars, semVars >>)

\* ------------------------------------------------------- daemon lifecycle
\* Client c runs connectOrSpawn once; the daemon it spawns is process c.
\* The clients are numbered in the order of their first dial.
NClients == 3

PollAttempts == 20

\* The failed poll attempts that one step of the model covers.
PollStride == 10

Procs == 1 .. NClients

\* The process is running (os.FindProcess / pgrep find it).
Alive(d) == procSt[d] \notin {"none", "exited", "fatal", "killed"}

\* d is in the loop of serveLoop; "rearmed" when its last Accept timed out and
\* the loop went on.
Serving(d) == procSt[d] \in {"serve", "rearmed"}

\* The listener of d is open: between net.Listen and listener.Close.
Listening(d) == Serving(d) \/ procSt[d] \in {"rmsock", "errsock", "lnclose"}

\* net.Dial("unix", socketPath) succeeds when the socket file at the path
\* belongs to an open listener.
CanDial == sockPath # 0 /\ Listening(sockPath)

\* The connections of the processes in K end with them.
ConnsWithout(K) ==
  [c \in Procs |-> IF connTo[c] \in K /\ connSt[c] # "none" THEN "closed" ELSE connSt[c]]

\* The processes in K end: the OS closes their descriptors, which drops their
\* flock and their connections; files stay where they are.
ProcessesEnd(K, how) ==
  /\ procSt' = [d \in Procs |-> IF d \in K THEN how ELSE procSt[d]]
  /\ locked' = [d \in Procs |-> IF d \in K THEN FALSE ELSE locked[d]]
  /\ lockFd' = [d \in Procs |-> IF d \in K THEN 0 ELSE lockFd[d]]
  /\ connSt' = ConnsWithout(K)

\* conn, err := net.Dial(...): the first attempt of connectOrSpawn.
DialFirst(c) ==
  /\ cos[c] = "dial"
  /\ IF c = 1 THEN TRUE ELSE cos[c - 1] # "dial"
  /\ IF CanDial
       THEN /\ cos' = [cos EXCEPT ![c] = "conn"]
            /\ connTo' = [connTo EXCEPT ![c] = sockPath]
            /\ connSt' = [connSt EXCEPT ![c] = "pending"]
       ELSE /\ cos' = [cos EXCEPT ![c] = "clean"]
            /\ UNCHANGED << connTo, connSt >>
  /\ UNCHANGED << attempts, procSt, lockFd, locked, lockPath, lockContent,
                  nInodes, sockPath, activeConns >>

\* ipc.CheckAndCleanLock(lockPath, socketPath): reads the PID in the lock
\* file; a missing or unparsable file is removed; so is the file of a process
\* that is gone; a live process without a socket file is terminated and its
\* file removed; with both process and socket present nothing is done.
CheckAndCleanLock(c) ==
  /\ cos[c] = "clean"
  /\ cos' = [cos EXCEPT ![c] = "sweep"]
  /\ LET pid == IF lockPath = 0 THEN 0 ELSE lockContent
     IN IF pid = 0 \/ pid \notin Procs
          THEN /\ lockPath' = 0
               /\ lockContent' = 0
               /\ UNCHANGED << procSt, locked, lockFd, connSt >>
        ELSE IF ~ Alive(pid)
          THEN /\ lockPath' = 0
               /\ lockContent' = 0
               /\ UNCHANGED << procSt, locked, lockFd, connSt >>
        ELSE IF sockPath = 0
          THEN /\ ProcessesEnd({pid}, "killed")
               /\ lockPath' = 0
               /\ lockContent' = 0
        ELSE UNCHANGED << procSt, locked, lockFd, connSt, lockPath, lockContent >>
  /\ UNCHANGED << attempts, connTo, nInodes, sockPath, activeConns >>

\* pgrep -f "<exe> --daemon <linkName>" and process.Kill() of every match.
ZombieSweep(c) ==
  /\ cos[c] = "sweep"
  /\ cos' = [cos EXCEPT ![c] = "spawn"]
  /\ ProcessesEnd({d \in Procs : Alive(d)}, "killed")
  /\ UNCHANGED << attempts, connTo, lockPath, lockContent, nInodes, sockPath,
                  activeConns >>

\* exec.Command(exe, "--daemon", linkName).Start()
SpawnDaemon(c) ==
  /\ cos[c] = "spawn"
  /\ cos' = [cos EXCEPT ![c] = "poll"]
  /\ procSt' = [procSt EXCEPT ![c] = "open"]
  /\ UNCHANGED << attempts, connTo, connSt, lockFd, locked, lockPath, lockContent,
                  nInodes, sockPath, activeConns >>

\* Variant that gives up after the first failed turns.
PollDial_GiveUpEarly(c) ==
  /\ cos[c] = "poll"
  /\ attempts[c] < PollAttempts
  /\ IF CanDial
       THEN /\ cos' = [cos EXCEPT ![c] = "conn"]
            /\ attempts' = [attempts EXCEPT ![c] = 0]
            /\ connTo' = [connTo EXCEPT ![c] = sockPath]
            /\ connSt' = [connSt EXCEPT ![c] = "pending"]
       ELSE /\ attempts' = [attempts EXCEPT ![c] = 1]
            /\ cos' = [cos EXCEPT ![c] = "timeout"]
            /\ UNCHANGED << connTo, connSt >>
  /\ UNCHANGED << procSt, lockFd, locked, lockPath, lockContent, nInodes,
                  sockPath, activeConns >>

\* The retry loop: sleep, dial, return the first connection that succeeds;
\* after PollAttempts failures "timeout waiting for daemon".  One step is one
\* successful turn, or PollStride failed turns in a row (fewer when the loop
\* ends first).
PollDial(c) ==
  /\ cos[c] = "poll"
  /\ attempts[c] < PollAttempts
  /\ IF CanDial
       THEN /\ cos' = [cos EXCEPT ![c] = "conn"]
            /\ attempts' = [attempts EXCEPT ![c] = 0]
            /\ connTo' = [connTo EXCEPT ![c] = sockPath]
            /\ connSt' = [connSt EXCEPT ![c] = "pending"]
       ELSE LET made == IF attempts[c] + PollStride < PollAttempts
                          THEN attempts[c] + PollStride ELSE PollAttempts
            IN /\ attempts' = [attempts EXCEPT ![c] = made]
               /\ cos' = [cos EXCEPT ![c] = IF made = PollAttempts
                                               THEN "timeout" ELSE "poll"]
               /\ UNCHANGED << connTo, connSt >>
  /\ UNCHANGED << procSt, lockFd, locked, lockPath, lockContent, nInodes,
                  sockPath, activeConns >>

connectOrSpawn(c) ==
  \/ DialFirst(c)
  \/ CheckAndCleanLock(c)
  \/ ZombieSweep(c)
  \/ SpawnDaemon(c)
  \/ PollDial(c)

\* os.OpenFile(lockPath, O_CREATE|O_RDWR): opens the file at the path, or
\* creates one.
AcquireOpen(d) ==
  /\ procSt[d] = "open"
  /\ procSt' = [procSt EXCEPT ![d] = "flock"]
  /\ IF lockPath = 0
       THEN /\ nInodes' = nInodes + 1
            /\ lockPath' = nInodes + 1
            /\ lockContent' = 0
       ELSE UNCHANGED << nInodes, lockPath, lockContent >>
  /\ lockFd' = [lockFd EXCEPT ![d] = lockPath']
  /\ UNCHANGED << cos, attempts, connTo, connSt, locked, sockPath, activeConns >>

\* No other process holds a flock on the file d has open.
FlockFree(d) ==
  \A e \in Procs : e # d => ~ (locked[e] /\ lockFd[e] = lockFd[d])

\* unix.Flock(fd, LOCK_EX): returns once the lock is granted, and until then
\* the caller waits.  Nothing is written to the file.
AcquireFlock(d) ==
  /\ procSt[d] \in {"flock", "blocked"}
  /\ IF FlockFree(d)
       THEN /\ locked' = [locked EXCEPT ![d] = TRUE]
            /\ procSt' = [procSt EXCEPT ![d] = "ssh"]
       ELSE /\ procSt[d] = "flock"
            /\ procSt' = [procSt EXCEPT ![d] = "blocked"]
            /\ UNCHANGED locked
  /\ UNCHANGED << cos, attempts, connTo, connSt, lockFd, lockPath, lockContent,
                  nInodes, sockPath, activeConns >>

AcquireLock(d) == AcquireOpen(d) \/ AcquireFlock(d)

\* createSSHClient: on an error log.Fatalf ends the process at once.
ConnectSSH(d) ==
  /\ procSt[d] = "ssh"
  /\ \/ /\ procSt' = [procSt EXCEPT ![d] = "rmstale"]
        /\ UNCHANGED << locked, lockFd, connSt >>
     \/ ProcessesEnd({d}, "fatal")
  /\ UNCHANGED << cos, attempts, connTo, lockPath, lockContent, nInodes,
                  sockPath, activeConns >>

\* Variant that leaves a stale socket file in place.
RemoveStaleSocket_Keep(d) ==
  /\ procSt[d] = "rmstale"
  /\ procSt' = [procSt EXCEPT ![d] = "listen"]
  /\ UNCHANGED << cos, attempts, connTo, connSt, lockFd, locked, lockPath,
                  lockContent, nInodes, sockPath, activeConns >>

\* os.Remove(socketPath) before listening.
RemoveStaleSocket(d) ==
  /\ procSt[d] = "rmstale"
  /\ procSt' = [procSt EXCEPT ![d] = "listen"]
  /\ sockPath' = 0
  /\ UNCHANGED << cos, attempts, connTo, connSt, lockFd, locked, lockPath,
                  lockContent, nInodes, activeConns >>

\* net.Listen("unix", socketPath): creates the socket file, fatal when the
\* path is taken.
Listen(d) ==
  /\ procSt[d] = "listen"
  /\ IF sockPath = 0
       THEN /\ sockPath' = d
            /\ procSt' = [procSt EXCEPT ![d] = "serve"]
            /\ UNCHANGED << locked, lockFd, connSt >>
       ELSE /\ ProcessesEnd({d}, "fatal")
            /\ UNCHANGED sockPath
  /\ UNCHANGED << cos, attempts, connTo, lockPath, lockContent, nInodes,
                  activeConns >>

\* listener.Accept returns a connection: the counter is raised and the
\* handler goroutine started.
Accept(d) ==
  /\ Serving(d)
  /\ procSt' = [procSt EXCEPT ![d] = "serve"]
  /\ \E c \in Procs :
        /\ connTo[c] = d
        /\ connSt[c] = "pending"
        /\ connSt' = [connSt EXCEPT ![c] = "handling"]
  /\ activeConns' = [activeConns EXCEPT ![d] = @ + 1]
  /\ UNCHANGED << cos, attempts, connTo, lockFd, locked, lockPath,
                  lockContent, nInodes, sockPath >>

\* Variant that shuts down on every timeout.
AcceptTimeout_NoCounter(d) ==
  /\ Serving(d)
  /\ \A c \in Procs : ~ (connTo[c] = d /\ connSt[c] = "pending")
  /\ procSt' = [procSt EXCEPT ![d] = "rmsock"]
  /\ UNCHANGED << cos, attempts, connTo, connSt, lockFd, locked, lockPath,
                  lockContent, nInodes, sockPath, activeConns >>

\* listener.Accept returns a timeout: no connection came before the
\* deadline.  With a positive counter the loop goes on, else serveLoop returns.
AcceptTimeout(d) ==
  /\ Serving(d)
  /\ \A c \in Procs : ~ (connTo[c] = d /\ connSt[c] = "pending")
  /\ IF activeConns[d] > 0
       THEN procSt' = [procSt EXCEPT ![d] = "rearmed"]
       ELSE procSt' = [procSt EXCEPT ![d] = "rmsock"]
  /\ UNCHANGED << cos, attempts, connTo, connSt, lockFd, locked, lockPath,
                  lockContent, nInodes, sockPath, activeConns >>

\* listener.Accept returns another error: serveLoop returns.
AcceptError(d) ==
  /\ Serving(d)
  /\ procSt' = [procSt EXCEPT ![d] = "errsock"]
  /\ UNCHANGED << cos, attempts, connTo, connSt, lockFd, locked, lockPath,
                  lockContent, nInodes, sockPath, activeConns >>

\* handleConnection returns in the goroutine of client c's connection.
HandlerReturn(c) ==
  /\ connSt[c] = "handling"
  /\ connSt' = [connSt EXCEPT ![c] = "returned"]
  /\ UNCHANGED << cos, attempts, connTo, procSt, lockFd, locked, lockPath,
                  lockContent, nInodes, sockPath, activeConns >>

\* The goroutine's deferred atomic.AddInt32(&activeConns, -1).
HandlerDone(c) ==
  /\ connSt[c] = "returned"
  /\ connSt' = [connSt EXCEPT ![c] = "closed"]
  /\ activeConns' = [activeConns EXCEPT ![connTo[c]] = @ - 1]
  /\ UNCHANGED << cos, attempts, connTo, procSt, lockFd, locked, lockPath,
                  lockContent, nInodes, sockPath >>

serveLoop(d) == Accept(d) \/ AcceptTimeout(d) \/ AcceptError(d)

\* The deferred calls of Start, last registered first, after serveLoop has
\* returned on an idle timeout ("rmsock") or on an error ("errsock").
\* os.Remove(socketPath)
RemoveSocket(d) ==
  /\ procSt[d] \in {"rmsock", "errsock"}
  /\ procSt' = [procSt EXCEPT ![d] = "lnclose"]
  /\ sockPath' = 0
  /\ UNCHANGED << cos, attempts, connTo, connSt, lockFd, locked, lockPath,
                  lockContent, nInodes, activeConns >>

\* listener.Close(): connections not yet accepted are dropped, and the
\* listener unlinks its path.
CloseListener(d) ==
  /\ procSt[d] = "lnclose"
  /\ procSt' = [procSt EXCEPT ![d] = "sshclose"]
  /\ sockPath' = 0
  /\ connSt' = [c \in Procs |-> IF connTo[c] = d /\ connSt[c] = "pending"
                                  THEN "closed" ELSE connSt[c]]
  /\ UNCHANGED << cos, attempts, connTo, lockFd, locked, lockPath, lockContent,
                  nInodes, activeConns >>

\* client.Close()
CloseSSH(d) ==
  /\ procSt[d] = "sshclose"
  /\ procSt' = [procSt EXCEPT ![d] = "unlock"]
  /\ UNCHANGED << cos, attempts, connTo, connSt, lockFd, locked, lockPath,
                  lockContent, nInodes, sockPath, activeConns >>

\* ipc.ReleaseLock(lockFile): unlock and close; the file stays.  Start
\* returns and the process ends.
ReleaseLock(d) ==
  /\ procSt[d] = "unlock"
  /\ ProcessesEnd({d}, "exited")
  /\ UNCHANGED << cos, attempts, connTo, lockPath, lockContent, nInodes,
                  sockPath, activeConns >>

Start(d) ==
  \/ AcquireLock(d)
  \/ ConnectSSH(d)
  \/ RemoveStaleSocket(d)
  \/ Listen(d)
  \/ serveLoop(d)
  \/ RemoveSocket(d)
  \/ CloseListener(d)
  \/ CloseSSH(d)
  \/ ReleaseLock(d)

\* No frame is encoded or decoded in SpecLife.
CodecIdle ==
  /\ mu = 0
  /\ wire = <<>>
  /\ wbroken = FALSE
  /\ wfaulty = FALSE
  /\ encLog = <<>>
  /\ encBy = <<>>
  /\ epc = <<>>
  /\ earg = <<>>
  /\ eret = <<>>
  /\ todo = <<>>
  /\ rpos = 0
  /\ dpc = "returned"
  /\ header = <<>>
  /\ calls = <<>>
  /\ dres = "nil"
  /\ onExitMode = "exit"

\* No daemon runs and neither file exists.
InitLife ==
  /\ cos = [c \in Procs |-> "dial"]
  /\ attempts = [c \in Procs |-> 0]
  /\ connTo = [c \in Procs |-> 0]
  /\ connSt = [c \in Procs |-> "none"]
  /\ procSt = [d \in Procs |-> "none"]
  /\ lockFd = [d \in Procs |-> 0]
  /\ locked = [d \in Procs |-> FALSE]
  /\ lockPath = 0
  /\ lockContent = 0
  /\ nInodes = 0
  /\ sockPath = 0
  /\ activeConns = [d \in Procs |-> 0]
  /\ CodecIdle
  /\ ConnIdle
  /\ SemIdle

NextLife ==
  \/ \E c \in Procs : connectOrSpawn(c) /\ UNCHANGED << codecVars, connVars, semVars >>
  \/ \E d \in Procs : Start(d) /\ UNCHANGED << codecVars, connVars, semVars >>
  \/ \E c \in Procs : HandlerReturn(c) /\ UNCHANGED << codecVars, connVars, semVars >>
  \/ \E c \in Procs : HandlerDone(c) /\ UNCHANGED << codecVars, connVars, semVars >>

SpecLife == InitLife /\ [][NextLife]_vars

\* One client invocation after a daemon crashed: no daemon runs, the lock file
\* holds the PID of a process that is gone, and the socket file of that
\* process may be left as well.
InitStale ==
  /\ cos = [c \in Procs |-> "dial"]
  /\ attempts = [c \in Procs |-> 0]
  /\ connTo = [c \in Procs |-> 0]
  /\ connSt = [c \in Procs |-> "none"]
  /\ procSt = [d \in Procs |-> "none"]
  /\ lockFd = [d \in Procs |-> 0]
  /\ locked = [d \in Procs |-> FALSE]
  /\ lockPath = 1
  /\ lockContent \in Procs \ {1}
  /\ nInodes = 1
  /\ sockPath \in {0, lockContent}
  /\ activeConns = [d \in Procs |-> 0]
  /\ CodecIdle
  /\ ConnIdle
  /\ SemIdle

\* The daemon is up in time: its SSH dial and its listen succeed, Accept
\* returns no error, the retry loop does not run out while the daemon is
\* starting, and the idle timeout (minutes) does not pass while the client
\* (seconds) is still connecting.
InTime ==
  /\ \A d \in Procs : procSt'[d] \in {"fatal", "errsock"} => procSt'[d] = procSt[d]
  /\ \A c \in Procs :
        (cos'[c] = "timeout" /\ cos[c] # "timeout")
          => \A d \in Procs : procSt[d] \notin {"open", "flock", "blocked", "ssh", "rmstale", "listen"}
  /\ \A d \in Procs :
        (procSt'[d] = "rmsock" /\ procSt[d] # "rmsock")
          => cos[1] \in {"conn", "timeout"}

\* The invocation is client 1; client 2 is a later invocation, begun once
\* client 1 has its connection.
ClientStep ==
  \E c \in {1, 2} :
    /\ IF c = 1 THEN TRUE ELSE cos[1] = "conn"
    /\ connectOrSpawn(c)
    /\ InTime
    /\ UNCHANGED << codecVars, connVars, semVars >>

DaemonStep ==
  \E d \in {1, 2} : Start(d) /\ InTime /\ UNCHANGED << codecVars, connVars, semVars >>

HandlerStep ==
  \E c \in {1, 2} :
    (HandlerReturn(c) \/ HandlerDone(c)) /\ UNCHANGED << codecVars, connVars, semVars >>

NextStale == ClientStep \/ DaemonStep \/ HandlerStep

\* Every process keeps running.
FairStale ==
  /\ InitStale
  /\ [][NextStale]_vars
  /\ WF_vars(ClientStep)
  /\ WF_vars(DaemonStep)

\* ----------------------------------------------------------------- SpecSem
\* handleConnection's bound on concurrency: the read loop, the channel sem,
\* the WaitGroup and the tasks, on a connection that delivers up to SemLines
\* command lines.
SemLines == 52

\* reader.ReadString('\n'): an error (end-of-file, a closed connection) ends
\* the loop; any line that is not blank after TrimSpace is a command. (A
\* blank line is skipped and leaves every variable as it was.)
SemRead ==
  /\ loop = "read"
  /\ \/ /\ loop' = "wait"
        /\ UNCHANGED nread
     \/ /\ nread < SemLines
        /\ nread' = nread + 1
        /\ loop' = "acquire"
  /\ UNCHANGED << sem, wg, inExec, inRelease, inDone >>

\* Variant whose send on sem never blocks.
SemAcquire_NoBlock ==
  /\ loop = "acquire"
  /\ sem' = sem + 1
  /\ wg' = wg + 1
  /\ inExec' = inExec + 1
  /\ loop' = "read"
  /\ UNCHANGED << nread, inRelease, inDone >>

\* sem <- struct{}{} (blocks while the channel is full), wg.Add(1) and the go
\* statement: the new task is inside execRemote.
SemAcquire ==
  /\ loop = "acquire"
  /\ sem < SemCap
  /\ sem' = sem + 1
  /\ wg' = wg + 1
  /\ inExec' = inExec + 1
  /\ loop' = "read"
  /\ UNCHANGED << nread, inRelease, inDone >>

\* execRemote returns in one of the tasks.
SemTaskReturn ==
  /\ inExec > 0
  /\ inExec' = inExec - 1
  /\ inRelease' = inRelease + 1
  /\ UNCHANGED << sem, wg, loop, nread, inDone >>

\* defer func() { <-sem }()
SemTaskRelease ==
  /\ inRelease > 0
  /\ inRelease' = inRelease - 1
  /\ sem' = sem - 1
  /\ inDone' = inDone + 1
  /\ UNCHANGED << wg, loop, nread, inExec >>

\* defer wg.Done()
SemTaskDone ==
  /\ inDone > 0
  /\ inDone' = inDone - 1
  /\ wg' = wg - 1
  /\ UNCHANGED << sem, loop, nread, inExec, inRelease >>

\* wg.Wait() returns, then the deferred conn.Close().
SemClose ==
  /\ loop = "wait"
  /\ wg = 0
  /\ loop' = "closed"
  /\ UNCHANGED << sem, wg, nread, inExec, inRelease, inDone >>

InitSem ==
  /\ sem = 0
  /\ wg = 0
  /\ loop = "read"
  /\ nread = 0
  /\ inExec = 0
  /\ inRelease = 0
  /\ inDone = 0
  /\ CodecIdle
  /\ ConnIdle
  /\ LifeIdle

NextSem ==
  \/ SemRead /\ UNCHANGED << codecVars, connVars, lifeVars >>
  \/ SemAcquire /\ UNCHANGED << codecVars, connVars, lifeVars >>
  \/ SemTaskReturn /\ UNCHANGED << codecVars, connVars, lifeVars >>
  \/ SemTaskRelease /\ UNCHANGED << codecVars, connVars, lifeVars >>
  \/ SemTaskDone /\ UNCHANGED << codecVars, connVars, lifeVars >>
  \/ SemClose /\ UNCHANGED << codecVars, connVars, lifeVars >>

SpecSem == InitSem /\ [][NextSem]_vars

\* ------------------------------------------------------------ codec claims
\* What DecodeLoop has consumed, partitioned into frames.
Consumed == ParseWire(SubSeq(wire, 1, rpos))

IsOutFrame(f) == f.kind \in {TypeStdout, TypeStderr}

IsOutCall(c) == c.kind \in {TypeStdout, TypeStderr}

AsCall(f) == Call(f.kind, f.data, 0)

MapAsCall(fs) == [i \in 1 .. Len(fs) |-> AsCall(fs[i])]

\* C1: whatever the interleaving of the tasks calling Encode on one Encoder,
\* the bytes that reached the writer are the whole frames of the Encode calls
\* in the order the calls took the mutex, followed at most by a prefix of the
\* next call's frame while that call is still writing or after the writer
\* failed; no byte of another frame lies inside a frame.
C1_FramesNeverInterleave ==
  LET p == ParseWire(wire)
      k == Len(p.frames)
  IN /\ k <= Len(encLog)
     /\ p.frames = SubSeq(encLog, 1, k)
     /\ IsPrefix(wire, Flat(encLog))
     /\ p.rest # <<>> => (mu # 0 \/ wbroken)

\* C1 witness: one task is between its header and its payload while another
\* task with a non-empty frame to encode is blocked on the mutex.
C1_Witness ==
  \E t, u \in Tasks :
    /\ t # u
    /\ epc[t] = "payload"
    /\ epc[u] = "idle"
    /\ todo[u] # <<>>
    /\ Len(Head(todo[u]).data) > 0
    /\ Len(wire) >= HeaderLen

\* C9: when DecodeLoop has returned, it returned an error exactly if the
\* stream ended inside a frame: "read header" when 1-4 bytes of a header were
\* read, "read payload" when the header was read but not all of the advertised
\* payload (none of it included); an end-of-file met with zero bytes read at a
\* header boundary makes it return nil.
C9_EofAtBoundaryOnly ==
  dpc = "returned" =>
    /\ (Len(Consumed.rest) \in 1 .. 4) <=> (dres = "errHeader")
    /\ (Len(Consumed.rest) >= HeaderLen) <=> (dres = "errPayload")
    /\ dres \in {"errHeader", "errPayload"} => (wbroken /\ rpos = Len(wire))
    /\ (dres = "nil" /\ (calls = <<>> \/ calls[Len(calls)].kind # TypeExit))
         => (wbroken /\ rpos = Len(wire) /\ Consumed.rest = <<>>)

\* C9 witness: a whole frame was delivered and then the stream ended after
\* 1-4 bytes of the next header.
C9_Witness ==
  /\ dres = "errHeader"
  /\ calls # <<>>
  /\ Len(Consumed.frames) = 1

\* C10: every Stdout or Stderr frame passed to Encode and wholly read by
\* DecodeLoop caused exactly one callback, the one of its kind, with the
\* payload that was passed to Encode (empty for a zero length), in order.
C10_RoundTrip ==
  SelectSeq(calls, IsOutCall)
    = MapAsCall(SelectSeq(SubSeq(encLog, 1, Len(Consumed.frames)), IsOutFrame))

\* C10 witness: a Stderr frame with an empty payload and a Stdout frame with
\* a non-empty payload both went through Encode and DecodeLoop.
C10_Witness ==
  /\ Len(calls) = 2
  /\ calls[1] = Call(TypeStderr, <<>>, 0)
  /\ calls[2] = Call(TypeStdout, <<7>>, 0)

IsKnownFrame(f) == f.kind \in {TypeStdout, TypeStderr, TypeExit}

\* C11: over a stream of whole frames DecodeLoop has invoked one callback for
\* every frame of kind 0x01, 0x02 or 0x03 it consumed, in wire order, with
\* the frame's payload, and none for a frame of another kind; no frame makes
\* the loop end other than through the Exit callback.
C11_DecodeInOrder ==
  LET known == SelectSeq(Consumed.frames, IsKnownFrame)
  IN /\ dres # "panic"
     /\ Len(calls) = Len(known)
     /\ \A i \in 1 .. Len(calls) :
          calls[i].kind = known[i].kind /\ calls[i].data = known[i].data

\* C21: whatever bytes DecodeLoop reads, it is still reading or it has
\* returned, with nil or with an error; it never ends in a run-time panic.
C21_DecodeNeverCrashes ==
  /\ dres \in {"running", "nil", "errHeader", "errPayload", "osExit", "panic"}
  /\ dpc = "returned" => dres \in {"nil", "errHeader", "errPayload", "osExit"}

\* ------------------------------------------------------- connection claims
\* The frames task t passed to Encode, in order
FramesBy(t) ==
  LET idx == SelectSeq([i \in 1 .. Len(encBy) |-> i], LAMBDA i : encBy[i] = t)
  IN [k \in 1 .. Len(idx) |-> encLog[idx[k]]]

ExitCount(t) == Len(SelectSeq(FramesBy(t), LAMBDA f : f.kind = TypeExit))

\* The Exit frame of task t is wholly on the wire
ExitOnWire(t) ==
  \E i \in 1 .. Len(ParseWire(wire).frames) : encBy[i] = t /\ encLog[i].kind = TypeExit

\* C2: the wire carries the frames in the order of the Encode calls, and for
\* every command any other frame of the command precedes its Exit frame and
\* is no Exit frame: at most one Exit per command, nothing of it after it.
C2_ExitOnceAndLast ==
  /\ IsPrefix(wire, Flat(encLog))
  /\ \A i, j \in 1 .. Len(encLog) :
       (i # j /\ encBy[i] = encBy[j] /\ encLog[i].kind = TypeExit)
         => (j < i /\ encLog[j].kind # TypeExit)

\* C2 witness: a command's Stdout frame and its Exit frame are on the wire
\* with a frame of another command between them.
C2_Witness ==
  \E i, j, k \in 1 .. Len(ParseWire(wire).frames) :
    /\ i < j /\ j < k
    /\ encBy[i] = encBy[k] /\ encBy[j] # encBy[i]
    /\ encLog[i].kind = TypeStdout
    /\ encLog[k].kind = TypeExit

\* C3: every command the handler accepted eventually has execRemote return
\* with exactly one Exit frame passed to Encode, and that frame is on the
\* wire of the connection unless the client process was killed.
C3_ExitEventually ==
  \A t \in 1 .. MaxLines :
    (tpc[t] # "none") ~>
      (Returned(t) /\ ExitCount(t) = 1 /\ (cstatus # "killed" => ExitOnWire(t)))

\* C3 witness: a rejected command and a command whose session ran have both
\* returned with their Exit frames on the wire.
C3_Witness ==
  \E t, u \in Tasks :
    /\ tres[t].kind = "rejected" /\ Returned(t) /\ ExitOnWire(t)
    /\ tres[u].kind = "ran" /\ Returned(u) /\ ExitOnWire(u)

\* The exit code the protocol assigns to what happened to a command
CodeFor(r) ==
  IF r.kind = "nosession" THEN 255
  ELSE IF r.kind = "rejected" THEN 1
  ELSE IF r.err.type = "ExitError" THEN r.err.status
  ELSE IF r.err.type = "other" THEN 1
  ELSE 0

\* C6: a single-shot client that received an Exit frame has stopped decoding
\* at that frame, and the process exits with the code of its command: the
\* remote exit status when the session ran, 255 when no session could be
\* opened.
C6_SingleShotExitCode ==
  ~batchMode =>
    /\ \A i \in 1 .. Len(calls) :
         calls[i].kind = TypeExit =>
           (i = Len(calls) /\ dres = "osExit" /\ dpc = "returned")
    /\ (cstatus = "exited" /\ dres = "osExit") =>
         (tres[1].kind # "none" /\ cexit = CodeFor(tres[1]))

\* C6 witness: a single-shot client wrote the command's output and exited
\* with the remote status 2.
C6_Witness ==
  /\ ~batchMode
  /\ cstatus = "exited"
  /\ cexit = 2
  /\ Len(calls) = 2
  /\ calls[1].kind = TypeStdout

\* The first whitespace-delimited token of a non-blank command line
FirstToken(cmd) == SubSeq(TrimLeft(cmd), 1, TokenLen(TrimLeft(cmd)))

NotListed(token) == \A i \in 1 .. Len(allowList) : allowList[i] # token

\* C7: for a command whose first token equals no entry of the allow-list, no
\* session is ever opened, and the frames passed to Encode for it are a
\* prefix of <<Stderr "Command not allowed: <token>\n", Exit 1>>, all of it
\* once execRemote has returned.
C7_RejectNotAllowed ==
  \A t \in Tasks :
    (tpc[t] # "none" /\ NotListed(FirstToken(tcmd[t]))) =>
      LET want == << Frame(TypeStderr, MsgNotAllowed \o FirstToken(tcmd[t]) \o << 10 >>),
                     Frame(TypeExit, << 0, 0, 0, 1 >>) >>
      IN /\ nsess[t] = 0
         /\ tpc[t] \in {"emit", "done"}
         /\ IsPrefix(FramesBy(t), want)
         /\ Returned(t) => FramesBy(t) = want

\* C7 witness: a rejected command has returned with its Exit frame on the
\* wire while a session was opened for another, allowed command.
C7_Witness ==
  \E t, u \in Tasks :
    /\ tres[t].kind = "rejected" /\ Returned(t) /\ ExitOnWire(t)
    /\ nsess[t] = 0
    /\ nsess[u] = 1

\* The input lines runBatch's sender submits: those not blank after TrimSpace
Submittable(lines) == Len(SelectSeq(lines, LAMBDA l : TrimSpace(l) # <<>>))

\* The newline-terminated lines in a buffer
LineCount(buf) == Cardinality({i \in 1 .. Len(buf) : buf[i] = Newline})

\* The Exit frames the client's DecodeLoop has delivered
ExitCalls == Len(SelectSeq(calls, LAMBDA c : c.kind = TypeExit))

C15_AtMostFiftyInFlight ==
  /\ [](/\ inExec <= SemCap
        /\ sem = inExec + inRelease
        /\ sem <= SemCap
        /\ wg = inExec + inRelease + inDone)
  /\ [][inExec = SemCap => (wg' <= wg /\ inExec' <= inExec)]_vars
  /\ [][(loop = "acquire" /\ loop' # "acquire") => (sem < SemCap /\ inExec' = inExec + 1)]_vars

\* C15 witness: SemCap tasks are inside execRemote and the handler has a
\* further command in hand, waiting at its send on sem.
C15_Witness == inExec = SemCap /\ loop = "acquire" /\ nread = SemCap + 1

\* C16: (1) the handler closes the connection only from behind its read
\* loop, which ended on an end-of-file from the client, and with every task
\* it spawned returned from execRemote, each having passed exactly one Exit
\* frame to Encode; (2) once the read loop has ended no further task is
\* spawned; (3) a task in flight when the client's side is closed still
\* returns, its Exit frame passed to Encode.
C16_CloseAfterLoopAndTasks ==
  /\ [](hpc = "closed" =>
          /\ c2dClosed
          /\ \A t \in Tasks : tpc[t] # "none" => (Returned(t) /\ ExitCount(t) = 1))
  /\ [][hpc' = "closed" /\ hpc # "closed" => (hpc = "wait" /\ InFlight = 0)]_vars
  /\ [][hpc # "read" => (ntasks' = ntasks /\ tcmd' = tcmd)]_vars
  /\ \A t \in 1 .. MaxLines :
       (tpc[t] # "none" /\ c2dClosed /\ ~ Returned(t)) ~>
         (Returned(t) /\ ExitCount(t) = 1)

\* C16 witness: the connection is closed after a task's Encode failed on the
\* connection the client had already closed, and that task still passed its
\* Exit frame to Encode.
C16_Witness ==
  /\ hpc = "closed"
  /\ \E t \in Tasks :
       /\ tres[t].kind = "ran"
       /\ eret[t] = "err"
       /\ ExitCount(t) = 1
       /\ Len(FramesBy(t)) = 2

\* The four bytes of an exit code, most significant first
CodeBytes(code) ==
  << code \div 16777216, (code \div 65536) % 256, (code \div 256) % 256, code % 256 >>

\* The frames the protocol prescribes for a failed session: Stderr
\* "SSH session error: x\n", then Exit 255
WantNoSession ==
  << Frame(TypeStderr, << 83, 83, 72, 32, 115, 101, 115, 115, 105, 111, 110, 32,
                          101, 114, 114, 111, 114, 58, 32, 120, 10 >>),
     Frame(TypeExit, << 0, 0, 0, 255 >>) >>

\* The frames the protocol prescribes for a session that ran with result r
WantRan(r) ==
  (IF r.out # <<>> THEN << Frame(TypeStdout, r.out) >> ELSE <<>>)
    \o << Frame(TypeExit,
                CodeBytes(IF r.err.type = "ExitError" THEN r.err.status
                          ELSE IF r.err.type = "other" THEN 1
                          ELSE 0)) >>

\* C19: for an allowed command whose NewSession failed, the frames passed to
\* Encode are a prefix of <<Stderr "SSH session error: <err>\n", Exit 255>>,
\* all of it once execRemote has returned, with no Stdout frame among them;
\* and every other command of the connection whose session ran has its own
\* frames as if the failure had not happened.
C19_SessionFailure ==
  \A t \in Tasks :
    tres[t].kind = "nosession" =>
      /\ ~ NotListed(FirstToken(tcmd[t]))
      /\ nsess[t] = 1
      /\ IsPrefix(FramesBy(t), WantNoSession)
      /\ Returned(t) => FramesBy(t) = WantNoSession
      /\ \A i \in 1 .. Len(FramesBy(t)) : FramesBy(t)[i].kind # TypeStdout
      /\ \A u \in Tasks \ {t} :
           tres[u].kind = "ran" =>
             /\ tpc[u] = "emit"
             /\ Returned(u) => (ExitCount(u) = 1 /\ Len(FramesBy(u)) = Len(WantRan(tres[u])))

\* C19 witness: a command whose session could not be opened has returned
\* with both its frames on the wire, and so has a command of the same
\* connection whose session ran and produced output.
C19_Witness ==
  \E t, u \in Tasks :
    /\ tres[t].kind = "nosession" /\ Returned(t) /\ ExitOnWire(t)
    /\ tres[u].kind = "ran" /\ tres[u].out # <<>> /\ Returned(u) /\ ExitOnWire(u)

\* C20: for a command whose session ran, the frames passed to Encode are a
\* prefix of: a Stdout frame with the combined output if that output is not
\* empty, then an Exit frame whose payload is the big-endian code (the
\* status of an ExitError, 1 for another error, 0 for none); all of it once
\* execRemote has returned.
C20_RanFrames ==
  \A t \in Tasks :
    tres[t].kind = "ran" =>
      /\ IsPrefix(FramesBy(t), WantRan(tres[t]))
      /\ Returned(t) => FramesBy(t) = WantRan(tres[t])

\* C20 witness: two commands ran and returned with their frames on the wire:
\* one with no output and an error that is no ExitError (an Exit frame
\* alone, code 1), one with output and remote status 2.
C20_Witness ==
  \E t, u \in Tasks :
    /\ tres[t].kind = "ran" /\ tres[t].out = <<>> /\ tres[t].err.type = "other"
    /\ Returned(t) /\ ExitOnWire(t) /\ Len(FramesBy(t)) = 1
    /\ tres[u].kind = "ran" /\ tres[u].out # <<>> /\ tres[u].err.type = "ExitError"
    /\ Returned(u) /\ ExitOnWire(u) /\ Len(FramesBy(u)) = 2

\* C22: a single-shot client that has exited with status 0 was delivered an
\* Exit frame with code 0.
C22_ZeroOnlyOnExitZero ==
  (~ batchMode /\ cstatus = "exited" /\ cexit = 0) =>
    \E i \in 1 .. Len(calls) : calls[i].kind = TypeExit /\ calls[i].code = 0

\* C23: a connected single-shot client, whatever its command line (a blank
\* one included), eventually is no longer running.
C23_SingleShotTerminates ==
  (~ batchMode /\ cstatus = "running") ~> (cstatus # "running")

\* -------------------------------------------------------- lifecycle claims
\* The daemon processes past a successful AcquireLock on the lock path that
\* have neither released the lock nor ended.
Holders == {d \in Procs : locked[d]}

\* C4: in every reachable state at most one daemon process holds the
\* single-instance lock of the identity.
C4_SingleHolder == Cardinality(Holders) <= 1

\* C5: an acquire on a lock that another live process holds fails at once:
\* no contending daemon is ever left waiting for the holder.
C5_FailFast == \A d \in Procs : procSt[d] # "blocked"

\* The accepted connections of d whose goroutine has not yet lowered the counter.
Unfinished(d) ==
  {c \in Procs : connTo[c] = d /\ connSt[c] \in {"handling", "returned"}}

\* C8: serveLoop takes the idle-shutdown exit only at a counter of zero and
\* with no accepted connection's handler unfinished; a timeout at a positive
\* counter leaves it in the loop with the listener open.
C8_IdleShutdownOnlyAtZero ==
  [][\A d \in Procs :
        /\ (Serving(d) /\ procSt'[d] = "rmsock")
              => (activeConns[d] = 0 /\ Unfinished(d) = {})
        /\ (Serving(d) /\ AcceptTimeout(d) /\ activeConns[d] > 0)
              => (procSt'[d] = "rearmed" /\ Listening(d)')]_vars

\* A daemon that served a connection to its end has shut down on an idle
\* timeout.
C8_Witness ==
  \E d \in Procs :
    /\ procSt[d] = "rmsock"
    /\ \E c \in Procs : connTo[c] = d /\ connSt[c] = "closed"

\* C14: connectOrSpawn (1) on a successful first dial returns that
\* connection and touches neither the lock file, nor any process, nor the
\* socket file; on a failed one it goes on to the cleanup; (2) returns a
\* connection only from a dial that succeeded, the first one that did; (3)
\* polls only after it spawned its daemon and only while fewer than
\* PollAttempts attempts were made; (4) fails with the timeout exactly when
\* the last of PollAttempts attempts has failed.
C14_PollAtMostTwenty ==
  [][\A c \in Procs :
       /\ cos[c] = "dial" /\ cos'[c] # "dial" =>
            IF CanDial
              THEN /\ cos'[c] = "conn" /\ connTo'[c] = sockPath
                   /\ UNCHANGED << procSt, lockFd, locked, lockPath, lockContent,
                                   nInodes, sockPath, attempts >>
              ELSE cos'[c] = "clean"
       /\ cos'[c] = "conn" /\ cos[c] # "conn" =>
            /\ cos[c] \in {"dial", "poll"}
            /\ CanDial
            /\ connTo'[c] = sockPath
       /\ cos[c] = "poll" =>
            /\ procSt[c] # "none"
            /\ attempts[c] < PollAttempts
            /\ attempts'[c] <= PollAttempts
            /\ CanDial /\ (cos'[c] # "poll" \/ attempts'[c] # attempts[c]) => cos'[c] = "conn"
       /\ cos[c] # "poll" => attempts'[c] = attempts[c] /\ attempts[c] \in {0, PollAttempts}
       /\ cos'[c] = "timeout" /\ cos[c] # "timeout" =>
            /\ cos[c] = "poll" /\ ~ CanDial
            /\ attempts'[c] = PollAttempts
       /\ cos[c] = "poll" /\ attempts'[c] = PollAttempts => cos'[c] = "timeout"
    ]_vars

\* C14 witness: one client ran out of attempts while another one, which
\* also spawned a daemon, got its connection from the retry loop.
C14_Witness ==
  \E c, e \in Procs :
    /\ cos[c] = "timeout" /\ attempts[c] = PollAttempts
    /\ cos[e] = "conn" /\ procSt[e] # "none"

\* C17: a daemon that has left its accept loop has the socket file removed
\* before it closes the listener and holds the lock until the end, and
\* once it has exited through the teardown of Start, no other daemon having
\* been started, neither the socket path nor the lock path exists.
C17_TeardownLeavesNothing ==
  \A d \in Procs :
    /\ procSt[d] \in {"lnclose", "sshclose", "unlock"} => locked[d]
    /\ procSt[d] \in {"lnclose", "sshclose", "unlock"} => sockPath # d
    /\ (procSt[d] = "exited" /\ \A e \in Procs \ {d} : procSt[e] = "none") =>
         (~ locked[d] /\ sockPath = 0 /\ lockPath = 0)

\* C18: while a process holds the lock on the file at the lock path, that
\* file's content is the process's PID; and the file at the lock path is
\* empty when no process holds a lock on it.
C18_LockFileHoldsPid ==
  /\ \A d \in Procs : (locked[d] /\ lockFd[d] = lockPath) => lockContent = d
  /\ (lockPath # 0 /\ \A d \in Procs : ~ (locked[d] /\ lockFd[d] = lockPath)) =>
       lockContent = 0

\* A daemon in its startup sequence with the lock held and its socket not yet
\* created: between AcquireLock and net.Listen
StartingUp(d) == locked[d] /\ procSt[d] \in {"ssh", "rmstale", "listen"}

\* C24: no step of a client's cleanup (CheckAndCleanLock, the zombie sweep)
\* terminates a daemon that is in its startup sequence.
C24_CleanupSparesStartingDaemon ==
  [][\A d \in Procs : StartingUp(d) => procSt'[d] # "killed"]_vars

\* Client c's connection was established on daemon d's listening socket and
\* waits to be accepted.
WaitsFor(c, d) == cos[c] = "conn" /\ connTo[c] = d /\ connSt[c] = "pending"

\* C25: no daemon is on its way out after an idle timeout (serveLoop has
\* returned with a zero counter; the removal of the socket file and the close
\* of the listener follow) while a connection waits to be accepted by it.
C25_NoIdleExitWithWaitingClient ==
  \A d, c \in Procs : procSt[d] = "rmsock" => ~ WaitsFor(c, d)

\* C12: from a stale lock (the PID of a process that is gone) and no daemon,
\* the client, its first dial having failed, removes the stale lock file
\* before it spawns, never runs out of poll attempts, and in the end holds
\* a connection to the daemon it spawned.
C12_StaleLockRecovery ==
  /\ [](cos[1] \in {"sweep", "spawn", "poll", "conn"} => lockPath # 1)
  /\ [](cos[1] # "timeout" /\ attempts[1] <= PollAttempts)
  /\ <>(cos[1] = "conn" /\ connTo[1] = 1)

\* C12 witness: the client is connected to the daemon it spawned, which
\* holds the lock on a new lock file and has accepted the connection.
C12_Witness ==
  /\ cos[1] = "conn"
  /\ connTo[1] = 1
  /\ connSt[1] = "handling"
  /\ locked[1]
  /\ lockPath = 2

====
